---- MODULE Spec2Model ----
(***************************************************************************)
(* Model of makeDebuggable.py: the patcher that makes the <application>    *)
(* element of an Android binary XML manifest carry android:debuggable.     *)
(*                                                                         *)
(* A manifest is a record [header, chunks, remnant].  Chunks are records   *)
(* holding the fields the program reads and writes; the string blob of the *)
(* string pool is kept as bytes, so that decode8/decode16 are modelled by  *)
(* what they do.  Strings are sequences of character codes.                *)
(***************************************************************************)
EXTENDS Integers, Sequences, FiniteSets

\* ------------------------------------------------------------------------
\* Program constants
\* ------------------------------------------------------------------------
COMMON_HEADER_LEN == 8
CHUNK_TYPE_STRINGPOOL == 1
CHUNK_TYPE_RESMAP == 384
CHUNK_TYPE_START_ELEMENT == 258
DEBUGGABLE_RES_ID == 16842767
DEBUGGABLE_STRING == <<100, 101, 98, 117, 103, 103, 97, 98, 108, 101>>
DEBUGGABLE_STRING_LENGTH_UTF8 == 12
DEBUGGABLE_STRING_LENGTH_UTF16 == 24
DEBUGGABLE_STRING_DATA_UTF8 ==
    <<10, 100, 101, 98, 117, 103, 103, 97, 98, 108, 101, 0>>
DEBUGGABLE_STRING_DATA_UTF16 ==
    <<10, 0, 100, 0, 101, 0, 98, 0, 117, 0, 103, 0, 103, 0, 97, 0, 98, 0,
      108, 0, 101, 0, 0, 0>>
ANDROID_NS_STRING ==
    <<104, 116, 116, 112, 58, 47, 47, 115, 99, 104, 101, 109, 97, 115, 46,
      97, 110, 100, 114, 111, 105, 100, 46, 99, 111, 109, 47, 97, 112, 107,
      47, 114, 101, 115, 47, 97, 110, 100, 114, 111, 105, 100>>
APPLICATION_STRING == <<97, 112, 112, 108, 105, 99, 97, 116, 105, 111, 110>>
UINT32_LENGTH == 4
UINT16_LENGTH == 2
ATTRIBUTE_LENGTH == 20

\* The word 0xFFFFFFFF ("no string" reference, boolean true).  TLC integers
\* are 32-bit signed, so the all-ones word is represented by the largest of
\* them: like the real word it is above every index and resource id.
xFFFFFFFF == 2147483647
DEBUGGABLE_VALUE_TRUE == xFFFFFFFF

\* The word 0x12000008 packed at lines 412 and 417: size, res0, dataType.
NEW_ATTR_WORD == 301989896

\* Header sizes of the chunk kinds of the format.
STRINGPOOL_HEADER_LEN == 28
NODE_HEADER_LEN == 16

\* Chunk types of the XML nodes.
TYPE_START_NS == 256
TYPE_END_NS == 257
TYPE_END_ELEMENT == 259
TYPE_CDATA == 260
TYPE_NODE_LAST == 383
TYPE_STRING == 3
FLAG_UTF8 == 256

\* ------------------------------------------------------------------------
\* Results of the Python code that are no ordinary value
\* ------------------------------------------------------------------------
NoneStr == <<-1>>      \* readString returned None
RaisedStr == <<-2>>    \* readString raised
NoneId == -1           \* readResId returned None

\* ------------------------------------------------------------------------
\* Bounds of the model
\* ------------------------------------------------------------------------
MaxNames == 2          \* attribute-name strings at the head of the pool
MaxAttrs == 2          \* attributes of <application> in the input
MaxResmaps == 3        \* resource-map chunks the rebuild loop may inject
RemnantLens == {0, 1, 7}

\* ------------------------------------------------------------------------
\* Sequence helpers
\* ------------------------------------------------------------------------
RECURSIVE SumTo(_, _)
SumTo(s, n) == IF n = 0 THEN 0 ELSE s[n] + SumTo(s, n - 1)

Sum(s) == SumTo(s, Len(s))

RECURSIVE Flatten(_)
Flatten(ss) == IF ss = <<>> THEN <<>> ELSE Head(ss) \o Flatten(Tail(ss))

\* ------------------------------------------------------------------------
\* String decoding (lines 207-266)
\* ------------------------------------------------------------------------
\* Whether a read that runs past the string bytes of the pool ends on NUL.
VARIABLES tailIsNul

isInt32NotNegative(v) == v < xFFFFFFFF

\* One length unit of sizeof_char bytes at 1-based position p of bytes b.
Unit(b, p, sizeof_char) ==
    IF sizeof_char = 1 THEN b[p] ELSE b[p] + 256 * b[p + 1]

\* [ok, length, bytesRead]; not ok when the two units are not there to read.
decodeLength(b, p, sizeof_char) ==
    LET highbit == IF sizeof_char = 1 THEN 128 ELSE 32768
        shift == IF sizeof_char = 1 THEN 256 ELSE 65536
    IN  IF p < 1 \/ p + 2 * sizeof_char - 1 > Len(b)
        THEN [ok |-> FALSE, length |-> 0, bytesRead |-> 0]
        ELSE LET length1 == Unit(b, p, sizeof_char)
                 length2 == Unit(b, p + sizeof_char, sizeof_char)
             IN  IF length1 >= highbit
                 THEN [ok |-> TRUE,
                       length |-> (length1 - highbit) * shift + length2,
                       bytesRead |-> sizeof_char * 2]
                 ELSE [ok |-> TRUE, length |-> length1,
                       bytesRead |-> sizeof_char]

\* fs.read does not stop where the string bytes of the pool end: a length
\* that leads past them reads on into the chunks that follow.  Those are
\* kept as fields, not as bytes, so what such a read finds is open: the
\* byte it ends on is NUL or it is not (tailIsNul), and the string read is
\* the rest of the string bytes and then bytes of other chunks (-3).
Beyond(b, from) ==
    IF tailIsNul THEN SubSeq(b, from, Len(b)) \o <<-3>> ELSE RaisedStr

\* decode8: the UTF-16 length, the UTF-8 length, the bytes, a NUL byte.
decode8(b, p) ==
    LET l1 == decodeLength(b, p, 1)
        l2 == decodeLength(b, p + l1.bytesRead, 1)
        from == p + l1.bytesRead + l2.bytesRead
        to == from + l2.length - 1
    IN  IF ~l1.ok \/ ~l2.ok THEN RaisedStr
        ELSE IF to + 1 > Len(b) THEN Beyond(b, from)
        ELSE IF b[to + 1] # 0 THEN RaisedStr
        ELSE SubSeq(b, from, to)

\* decode16: the length in UTF-16 units, the units, a NUL unit.
decode16(b, p) ==
    LET l1 == decodeLength(b, p, 2)
        from == p + l1.bytesRead
        to == from + 2 * l1.length - 1
    IN  IF ~l1.ok THEN RaisedStr
        ELSE IF to + 2 > Len(b) THEN Beyond(b, from)
        ELSE IF b[to + 1] # 0 \/ b[to + 2] # 0 THEN RaisedStr
        ELSE [k \in 1..l1.length |-> Unit(b, from + 2 * (k - 1), 2)]

\* Where the bytes after the two offset tables begin, from the chunk start.
BlobBase(pool) ==
    pool.headerSize + UINT32_LENGTH * Len(pool.offsets)
        + UINT32_LENGTH * Len(pool.styleOffsets)

isUtf8(pool) == (pool.flags \div FLAG_UTF8) % 2 = 1

readString(pool, idx) ==
    IF ~isInt32NotNegative(idx) \/ idx >= pool.stringCount THEN NoneStr
    ELSE LET stringOffset == pool.offsets[idx + 1]
             p == pool.stringsStart + stringOffset - BlobBase(pool) + 1
         IN  IF isUtf8(pool) THEN decode8(pool.blob, p)
             ELSE decode16(pool.blob, p)

\* ------------------------------------------------------------------------
\* Scanning and decoding (lines 72-129, 187-188, 268-336, 436-442)
\* ------------------------------------------------------------------------
\* A stream is [header, chunks, bytes, remnant]: bytes[k] is the number of
\* bytes chunk k occupies, remnant the bytes after the last chunk.
NoHeader == [type |-> -1, headerSize |-> 0, chunkSize |-> 0]

StreamLen(f) ==
    (IF f.header = NoHeader THEN 0 ELSE COMMON_HEADER_LEN)
        + Sum(f.bytes) + Len(f.remnant)

readCommonHeader(c) ==
    [type |-> c.type, headerSize |-> c.headerSize, chunkSize |-> c.chunkSize]

\* readChunks from chunk k at offset pos.  A header is read while 8 bytes
\* are left; the scanner then moves on by chunkSize.  Fewer than 8 bytes
\* left (the remnant) end the scan.  The walk follows the chunk sequence as
\* long as every chunkSize is the number of bytes its chunk occupies.
RECURSIVE readChunksFrom(_, _, _)
readChunksFrom(f, k, pos) ==
    IF k > Len(f.chunks) THEN <<>>
    ELSE LET header == readCommonHeader(f.chunks[k])
             info == [startOffset |-> pos, commonHeader |-> header]
         IN  IF header.chunkSize # f.bytes[k] THEN <<info>>
             ELSE <<info>> \o readChunksFrom(f, k + 1, pos + header.chunkSize)

readChunks(f) == readChunksFrom(f, 1, COMMON_HEADER_LEN)

\* [err, stringPoolIdx, resmapIdx], indices from 0, -1 when not found.
RECURSIVE findStringpoolAndResmapFrom(_, _, _, _)
findStringpoolAndResmapFrom(chunks, i, stringPoolIdx, resmapIdx) ==
    IF i = Len(chunks)
    THEN IF stringPoolIdx < 0
         THEN [err |-> "No string pool found!", stringPoolIdx |-> -1,
               resmapIdx |-> resmapIdx]
         ELSE [err |-> "", stringPoolIdx |-> stringPoolIdx,
               resmapIdx |-> resmapIdx]
    ELSE LET chunkType == chunks[i + 1].commonHeader.type
         IN  IF chunkType = CHUNK_TYPE_STRINGPOOL
             THEN IF stringPoolIdx >= 0
                  THEN [err |-> "More than one string pool!",
                        stringPoolIdx |-> stringPoolIdx,
                        resmapIdx |-> resmapIdx]
                  ELSE findStringpoolAndResmapFrom(chunks, i + 1, i, resmapIdx)
             ELSE IF chunkType = CHUNK_TYPE_RESMAP
             THEN IF resmapIdx >= 0
                  THEN [err |-> "More than one resmap!",
                        stringPoolIdx |-> stringPoolIdx,
                        resmapIdx |-> resmapIdx]
                  ELSE findStringpoolAndResmapFrom(chunks, i + 1,
                                                   stringPoolIdx, i)
             ELSE findStringpoolAndResmapFrom(chunks, i + 1, stringPoolIdx,
                                              resmapIdx)

findStringpoolAndResmap(chunks) == findStringpoolAndResmapFrom(chunks, 0, -1, -1)

calculateResMapLength(chunkInfo) ==
    (chunkInfo.commonHeader.chunkSize - chunkInfo.commonHeader.headerSize)
        \div UINT32_LENGTH

\* resmapInfo of lines 470-480: the synthetic empty map when there is none.
ResmapInfo(f, chunks, resmapIdx) ==
    IF resmapIdx = -1 THEN [present |-> FALSE, len |-> 0, ids |-> <<>>]
    ELSE [present |-> TRUE, len |-> calculateResMapLength(chunks[resmapIdx + 1]),
          ids |-> f.chunks[resmapIdx + 1].ids]

readResId(resmapInfo, idx) ==
    IF idx >= resmapInfo.len THEN NoneId ELSE resmapInfo.ids[idx + 1]

\* The index of the one start element named "application"; -1 when there is
\* none, -2 when there are several, -3 when reading a name raised.
RECURSIVE findApplicationFrom(_, _, _, _, _)
findApplicationFrom(f, chunks, pool, i, applicationIdx) ==
    IF i = Len(chunks)
    THEN applicationIdx
    ELSE IF chunks[i + 1].commonHeader.type # CHUNK_TYPE_START_ELEMENT
    THEN findApplicationFrom(f, chunks, pool, i + 1, applicationIdx)
    ELSE LET name == readString(pool, f.chunks[i + 1].name)
         IN  IF name = RaisedStr THEN -3
             ELSE IF name # APPLICATION_STRING
             THEN findApplicationFrom(f, chunks, pool, i + 1, applicationIdx)
             ELSE IF applicationIdx >= 0 THEN -2
             ELSE findApplicationFrom(f, chunks, pool, i + 1, i)

findApplication(f, chunks, pool) == findApplicationFrom(f, chunks, pool, 0, -1)

\* The attribute records of a start element, with their file offsets.
AttrOffset(chunkInfo, c, j) ==
    chunkInfo.startOffset + chunkInfo.commonHeader.headerSize
        + c.attributeStart + ATTRIBUTE_LENGTH * (j - 1)

decodeAttributes(chunkInfo, c) ==
    IF c.attributeSize # ATTRIBUTE_LENGTH THEN [ok |-> FALSE, attrs |-> <<>>]
    ELSE [ok |-> TRUE,
          attrs |-> [j \in 1..c.attributeCount |->
                       [startOffset |-> AttrOffset(chunkInfo, c, j),
                        nsId |-> c.attrs[j].ns,
                        nameId |-> c.attrs[j].name,
                        rawVal |-> c.attrs[j].rawVal,
                        size |-> c.attrs[j].size,
                        dataType |-> c.attrs[j].dataType,
                        data |-> c.attrs[j].data]]]

\* The index from 0 of the first attribute named "debuggable" whose name
\* has the debuggable resource id; -1 when there is none, -2 when reading
\* a name raised.
RECURSIVE findDebuggableAttributeFrom(_, _, _, _)
findDebuggableAttributeFrom(pool, resmapInfo, attrs, i) ==
    IF i = Len(attrs) THEN -1
    ELSE LET nameId == attrs[i + 1].nameId
             name == readString(pool, nameId)
             resId == readResId(resmapInfo, nameId)
         IN  IF name = RaisedStr THEN -2
             ELSE IF name = DEBUGGABLE_STRING /\ resId = DEBUGGABLE_RES_ID
             THEN i
             ELSE findDebuggableAttributeFrom(pool, resmapInfo, attrs, i + 1)

findDebuggableAttribute(pool, resmapInfo, attrs) ==
    findDebuggableAttributeFrom(pool, resmapInfo, attrs, 0)

\* The index of the android namespace string; -1 when there is none, -2
\* when reading a string raised.
RECURSIVE findAndroidNsIdxFrom(_, _)
findAndroidNsIdxFrom(pool, i) ==
    IF i = pool.stringCount THEN -1
    ELSE LET s == readString(pool, i)
         IN  IF s = RaisedStr THEN -2
             ELSE IF s = ANDROID_NS_STRING THEN i
             ELSE findAndroidNsIdxFrom(pool, i + 1)

findAndroidNsIdx(pool) == findAndroidNsIdxFrom(pool, 0)

\* ------------------------------------------------------------------------
\* The rebuild of the chunks (lines 131-185, 317-434)
\* Each operator yields the chunk written and the number of bytes written.
\* ------------------------------------------------------------------------
\* A variant that moves a reference up by two.
patchStringRefByTwo(n, cmp) ==
    IF n # xFFFFFFFF /\ n >= cmp THEN n + 2 ELSE n

patchStringRef(n, cmp) ==
    IF n # xFFFFFFFF /\ n >= cmp THEN n + 1 ELSE n

\* Inserts the "debuggable" string at insertionIdx.
patchStringPool(pool, insertionIdx) ==
    LET debuggableStrLength ==
            IF isUtf8(pool) THEN DEBUGGABLE_STRING_LENGTH_UTF8
            ELSE DEBUGGABLE_STRING_LENGTH_UTF16
        newStrCount == pool.stringCount + 1
        newStringsStart == pool.stringsStart + UINT32_LENGTH
        newStylesStart ==
            IF pool.styleCount > 0
            THEN pool.stylesStart + UINT32_LENGTH + debuggableStrLength
            ELSE 0
        newChunkSize == pool.chunkSize + debuggableStrLength + UINT32_LENGTH
    IN  IF insertionIdx >= pool.stringCount
        THEN \* the word read at line 151 lies past the table: the check of
             \* lines 159-160 raises
             [ok |-> FALSE, err |-> "sanity check", chunk |-> pool,
              written |-> 0]
        ELSE IF pool.styleCount > 0
        THEN \* line 180: unpack() is called with one argument and raises
             [ok |-> FALSE, err |-> "TypeError", chunk |-> pool, written |-> 0]
        ELSE
        LET insertionStringsOffset == pool.offsets[insertionIdx + 1]
            newOffsets ==
                SubSeq(pool.offsets, 1, insertionIdx)
                    \o <<insertionStringsOffset,
                         insertionStringsOffset + debuggableStrLength>>
                    \o [k \in 1..(pool.stringCount - insertionIdx - 1) |->
                          pool.offsets[insertionIdx + 1 + k]
                              + debuggableStrLength]
            \* input position after the tables, from the chunk start
            afterTables == pool.headerSize
                               + UINT32_LENGTH * pool.stringCount
                               + UINT32_LENGTH * pool.styleCount
            padding == pool.stringsStart - afterTables
            \* the blob position the first insertionStringsOffset bytes end at
            cut == pool.stringsStart - BlobBase(pool) + insertionStringsOffset
            rest == pool.chunkSize
                        - (pool.stringsStart + insertionStringsOffset)
            newBlob ==
                SubSeq(pool.blob, 1, cut)
                    \o (IF isUtf8(pool) THEN DEBUGGABLE_STRING_DATA_UTF8
                        ELSE DEBUGGABLE_STRING_DATA_UTF16)
                    \o SubSeq(pool.blob, cut + 1, Len(pool.blob))
        IN  [ok |-> TRUE, err |-> "",
             chunk |-> [pool EXCEPT !.chunkSize = newChunkSize,
                                    !.stringCount = newStrCount,
                                    !.stringsStart = newStringsStart,
                                    !.stylesStart = newStylesStart,
                                    !.offsets = newOffsets,
                                    !.blob = newBlob],
             written |-> COMMON_HEADER_LEN + 5 * UINT32_LENGTH
                           + UINT32_LENGTH * Len(newOffsets)
                           + UINT32_LENGTH * pool.styleCount
                           + padding + insertionStringsOffset
                           + debuggableStrLength + rest]

patchResmap(c) ==
    LET newChunkSize == c.chunkSize + UINT32_LENGTH
        toCopy == c.chunkSize - COMMON_HEADER_LEN
    IN  [ok |-> TRUE, err |-> "",
         chunk |-> [c EXCEPT !.chunkSize = newChunkSize,
                             !.ids = c.ids \o <<DEBUGGABLE_RES_ID>>],
         written |-> COMMON_HEADER_LEN + toCopy + UINT32_LENGTH]

injectResmap ==
    [ok |-> TRUE, err |-> "",
     chunk |-> [type |-> CHUNK_TYPE_RESMAP, headerSize |-> COMMON_HEADER_LEN,
                chunkSize |-> COMMON_HEADER_LEN + UINT32_LENGTH,
                ids |-> <<DEBUGGABLE_RES_ID>>],
     written |-> COMMON_HEADER_LEN + UINT32_LENGTH]

patchNode(c, debuggableStringId) ==
    [c EXCEPT !.comment = patchStringRef(c.comment, debuggableStringId)]

patchCDataExt(c, debuggableStringId) ==
    [c EXCEPT !.data = patchStringRef(c.data, debuggableStringId)]

patchNamespaceExt(c, debuggableStringId) ==
    [c EXCEPT !.prefix = patchStringRef(c.prefix, debuggableStringId),
              !.uri = patchStringRef(c.uri, debuggableStringId)]

patchEndElementExt(c, debuggableStringId) ==
    [c EXCEPT !.ns = patchStringRef(c.ns, debuggableStringId),
              !.name = patchStringRef(c.name, debuggableStringId)]

patchAttribute(a, debuggableStringId) ==
    [a EXCEPT !.ns = patchStringRef(a.ns, debuggableStringId),
              !.name = patchStringRef(a.name, debuggableStringId),
              !.rawVal = patchStringRef(a.rawVal, debuggableStringId),
              !.data = IF a.dataType = TYPE_STRING
                       THEN patchStringRef(a.data, debuggableStringId)
                       ELSE a.data]

\* Bytes of a start element up to its first attribute: the common header,
\* lineNo and comment, ns and name, six shorts, and the gap before
\* attributeStart.
StartElementLead(c) ==
    LET fixed == COMMON_HEADER_LEN + 2 * UINT32_LENGTH + 2 * UINT32_LENGTH
                     + 6 * UINT16_LENGTH
    IN  fixed + (c.headerSize + c.attributeStart - fixed)

patchAttrExt(c, debuggableStringId) ==
    LET attrsEnd == StartElementLead(c) + ATTRIBUTE_LENGTH * c.attributeCount
    IN  [chunk |-> [c EXCEPT
                      !.ns = patchStringRef(c.ns, debuggableStringId),
                      !.name = patchStringRef(c.name, debuggableStringId),
                      !.attrs = [j \in 1..c.attributeCount |->
                                   patchAttribute(c.attrs[j],
                                                  debuggableStringId)]],
         written |-> attrsEnd + (c.chunkSize - attrsEnd)]

patchChunk(c, debuggableStringId) ==
    IF c.type >= TYPE_START_NS /\ c.type <= TYPE_NODE_LAST
    THEN LET n == patchNode(c, debuggableStringId)
             lead == COMMON_HEADER_LEN + 2 * UINT32_LENGTH
         IN  IF c.type = TYPE_START_NS \/ c.type = TYPE_END_NS
             THEN [ok |-> TRUE, err |-> "",
                   chunk |-> patchNamespaceExt(n, debuggableStringId),
                   written |-> lead + 2 * UINT32_LENGTH]
             ELSE IF c.type = CHUNK_TYPE_START_ELEMENT
             THEN LET r == patchAttrExt(n, debuggableStringId)
                  IN  [ok |-> TRUE, err |-> "", chunk |-> r.chunk,
                       written |-> r.written]
             ELSE IF c.type = TYPE_END_ELEMENT
             THEN [ok |-> TRUE, err |-> "",
                   chunk |-> patchEndElementExt(n, debuggableStringId),
                   written |-> lead + 2 * UINT32_LENGTH]
             ELSE IF c.type = TYPE_CDATA
             THEN [ok |-> TRUE, err |-> "",
                   chunk |-> patchCDataExt(n, debuggableStringId),
                   written |-> lead + UINT32_LENGTH + 2 * UINT32_LENGTH]
             ELSE [ok |-> TRUE, err |-> "", chunk |-> n,
                   written |-> lead + (c.chunkSize - c.headerSize)]
    ELSE [ok |-> TRUE, err |-> "", chunk |-> c,
          written |-> COMMON_HEADER_LEN + (c.chunkSize - COMMON_HEADER_LEN)]

\* The attribute record packed at lines 412 and 417.
NewAttribute(androidNsId, debuggableStringId) ==
    [ns |-> androidNsId, name |-> debuggableStringId, rawVal |-> xFFFFFFFF,
     size |-> NEW_ATTR_WORD % 65536,
     res0 |-> (NEW_ATTR_WORD \div 65536) % 256,
     dataType |-> NEW_ATTR_WORD \div 16777216,
     data |-> xFFFFFFFF]

\* A variant that puts the new attribute before an attribute of its own id.
RECURSIVE patchApplicationAttributesAtOrAbove(_, _, _, _, _, _)
patchApplicationAttributesAtOrAbove(attrs, i, inserted, resmapInfo, debuggableStringId, androidNsId) ==
    IF i = Len(attrs)
    THEN [ok |-> TRUE,
          attrs |-> IF ~inserted
                    THEN <<NewAttribute(androidNsId, debuggableStringId)>>
                    ELSE <<>>]
    ELSE LET resId == readResId(resmapInfo, attrs[i + 1].name)
         IN  IF resId = NoneId THEN [ok |-> FALSE, attrs |-> <<>>]
             ELSE LET here == resId >= DEBUGGABLE_RES_ID /\ ~inserted
                      rest == patchApplicationAttributesAtOrAbove(
                                  attrs, i + 1, inserted \/ here, resmapInfo,
                                  debuggableStringId, androidNsId)
                  IN  [ok |-> rest.ok,
                       attrs |-> (IF here
                                  THEN <<NewAttribute(androidNsId,
                                                      debuggableStringId)>>
                                  ELSE <<>>)
                                 \o <<patchAttribute(attrs[i + 1],
                                                     debuggableStringId)>>
                                 \o rest.attrs]

\* The comparison of line 410: None > int raises TypeError.
RECURSIVE patchApplicationAttributesFrom(_, _, _, _, _, _)
patchApplicationAttributesFrom(attrs, i, inserted, resmapInfo, debuggableStringId, androidNsId) ==
    IF i = Len(attrs)
    THEN [ok |-> TRUE,
          attrs |-> IF ~inserted
                    THEN <<NewAttribute(androidNsId, debuggableStringId)>>
                    ELSE <<>>]
    ELSE LET name == attrs[i + 1].name
             resId == readResId(resmapInfo, name)
         IN  IF resId = NoneId THEN [ok |-> FALSE, attrs |-> <<>>]
             ELSE LET here == resId > DEBUGGABLE_RES_ID /\ ~inserted
                      rest == patchApplicationAttributesFrom(
                                  attrs, i + 1, inserted \/ here, resmapInfo,
                                  debuggableStringId, androidNsId)
                  IN  [ok |-> rest.ok,
                       attrs |-> (IF here
                                  THEN <<NewAttribute(androidNsId,
                                                      debuggableStringId)>>
                                  ELSE <<>>)
                                 \o <<patchAttribute(attrs[i + 1],
                                                     debuggableStringId)>>
                                 \o rest.attrs]

patchApplicationAttributes(attrs, resmapInfo, debuggableStringId, androidNsId) ==
    patchApplicationAttributesFrom(attrs, 0, FALSE, resmapInfo,
                                   debuggableStringId, androidNsId)

patchApplicationElement(c, androidNsId, debuggableStringId, resmapInfo) ==
    LET newChunkSize == c.chunkSize + ATTRIBUTE_LENGTH
        n == patchNode(c, debuggableStringId)
        currAttrCount == c.attributeCount
        patched == patchApplicationAttributes(
                       SubSeq(c.attrs, 1, currAttrCount), resmapInfo,
                       debuggableStringId, androidNsId)
        attrsEnd == StartElementLead(c) + ATTRIBUTE_LENGTH * currAttrCount
    IN  IF ~patched.ok
        THEN [ok |-> FALSE, err |-> "TypeError", chunk |-> c, written |-> 0]
        ELSE [ok |-> TRUE, err |-> "",
              chunk |-> [n EXCEPT
                           !.chunkSize = newChunkSize,
                           !.ns = patchStringRef(c.ns, debuggableStringId),
                           !.name = patchStringRef(c.name, debuggableStringId),
                           !.attributeCount = currAttrCount + 1,
                           !.attrs = patched.attrs],
              written |-> StartElementLead(c)
                            + ATTRIBUTE_LENGTH * Len(patched.attrs)
                            + (c.chunkSize - attrsEnd)]

\* ------------------------------------------------------------------------
\* Input manifests
\* ------------------------------------------------------------------------
StrAndroid == <<97, 110, 100, 114, 111, 105, 100>>
StrManifest == <<109, 97, 110, 105, 102, 101, 115, 116>>
StrPackage == <<112, 97, 99, 107, 97, 103, 101>>
StrValue == <<99, 111, 109, 46, 97, 112, 112>>
StrEnabled == <<101, 110, 97, 98, 108, 101, 100>>
StrExported == <<101, 120, 112, 111, 114, 116, 101, 100>>
StrX == <<120>>

\* Attribute names and their resource ids, in ascending order of the id:
\* 0x0101000E, 0x0101000F under another name, 0x0101000F, 0x01010010.
NameEntries ==
    << [str |-> StrEnabled, id |-> DEBUGGABLE_RES_ID - 1],
       [str |-> StrX, id |-> DEBUGGABLE_RES_ID],
       [str |-> DEBUGGABLE_STRING, id |-> DEBUGGABLE_RES_ID],
       [str |-> StrExported, id |-> DEBUGGABLE_RES_ID + 1] >>

RECURSIVE PickFrom(_, _)
PickFrom(k, S) ==
    IF k > Len(NameEntries) THEN <<>>
    ELSE (IF k \in S THEN <<NameEntries[k]>> ELSE <<>>) \o PickFrom(k + 1, S)

\* The name tables: the entries of a set of at most MaxNames positions.
NameTables ==
    { PickFrom(1, S) : S \in { T \in SUBSET (1..Len(NameEntries)) :
                                  Cardinality(T) <= MaxNames } }

TailStrings ==
    <<ANDROID_NS_STRING, StrAndroid, StrManifest, APPLICATION_STRING,
      StrPackage, StrValue>>

Enc8(str) == <<Len(str), Len(str)>> \o str \o <<0>>

Enc16(str) ==
    <<Len(str), 0>> \o Flatten([k \in 1..Len(str) |-> <<str[k], 0>>])
        \o <<0, 0>>

MakePool(strings, utf8, styleCount) ==
    LET encs == [k \in 1..Len(strings) |->
                   IF utf8 THEN Enc8(strings[k]) ELSE Enc16(strings[k])]
        lens == [k \in 1..Len(strings) |-> Len(encs[k])]
        blob == Flatten(encs)
        stringsStart == STRINGPOOL_HEADER_LEN + UINT32_LENGTH * Len(strings)
                            + UINT32_LENGTH * styleCount
    IN  [type |-> CHUNK_TYPE_STRINGPOOL,
         headerSize |-> STRINGPOOL_HEADER_LEN,
         chunkSize |-> stringsStart + Len(blob) + 12 * styleCount,
         stringCount |-> Len(strings),
         styleCount |-> styleCount,
         flags |-> IF utf8 THEN FLAG_UTF8 ELSE 0,
         stringsStart |-> stringsStart,
         stylesStart |-> IF styleCount > 0 THEN stringsStart + Len(blob)
                         ELSE 0,
         offsets |-> [k \in 1..Len(strings) |-> SumTo(lens, k - 1)],
         styleOffsets |-> [k \in 1..styleCount |-> 12 * (k - 1)],
         blob |-> blob,
         styles |-> [k \in 1..styleCount |->
                       [name |-> Len(strings) - 1, firstChar |-> 0,
                        lastChar |-> 0]]]

MakeResmap(ids) ==
    [type |-> CHUNK_TYPE_RESMAP, headerSize |-> COMMON_HEADER_LEN,
     chunkSize |-> COMMON_HEADER_LEN + UINT32_LENGTH * Len(ids), ids |-> ids]

IndexOf(strings, str) == (CHOOSE k \in 1..Len(strings) : strings[k] = str) - 1

MakeNamespace(type, prefix, uri) ==
    [type |-> type, headerSize |-> NODE_HEADER_LEN,
     chunkSize |-> NODE_HEADER_LEN + 2 * UINT32_LENGTH,
     lineNo |-> 1, comment |-> xFFFFFFFF, prefix |-> prefix, uri |-> uri]

MakeStartElement(ns, name, attrs) ==
    [type |-> CHUNK_TYPE_START_ELEMENT, headerSize |-> NODE_HEADER_LEN,
     chunkSize |-> NODE_HEADER_LEN + ATTRIBUTE_LENGTH
                       + ATTRIBUTE_LENGTH * Len(attrs),
     lineNo |-> 2, comment |-> xFFFFFFFF, ns |-> ns, name |-> name,
     attributeStart |-> ATTRIBUTE_LENGTH, attributeSize |-> ATTRIBUTE_LENGTH,
     attributeCount |-> Len(attrs), idIndex |-> 0, classIndex |-> 0,
     styleIndex |-> 0, attrs |-> attrs]

MakeEndElement(ns, name) ==
    [type |-> TYPE_END_ELEMENT, headerSize |-> NODE_HEADER_LEN,
     chunkSize |-> NODE_HEADER_LEN + 2 * UINT32_LENGTH,
     lineNo |-> 3, comment |-> xFFFFFFFF, ns |-> ns, name |-> name]

MakeCData(comment, data) ==
    [type |-> TYPE_CDATA, headerSize |-> NODE_HEADER_LEN,
     chunkSize |-> NODE_HEADER_LEN + 3 * UINT32_LENGTH,
     lineNo |-> 2, comment |-> comment, data |-> data,
     typedData |-> [size |-> 8, res0 |-> 0, dataType |-> 0, data |-> 0]]

\* An attribute of <application>: its name index and the kind of its value.
AttrKinds == {"false", "true", "string"}

MakeAttr(ns, name, kind, value) ==
    [ns |-> ns, name |-> name,
     rawVal |-> IF kind = "string" THEN value ELSE xFFFFFFFF,
     size |-> 8, res0 |-> 0,
     dataType |-> IF kind = "string" THEN TYPE_STRING
                  ELSE NEW_ATTR_WORD \div 16777216,
     data |-> IF kind = "string" THEN value
              ELSE IF kind = "true" THEN xFFFFFFFF ELSE 0]

\* The kinds of value an attribute of the given name takes in the inputs:
\* a value already true is of interest for the debuggable attribute only.
KindsFor(entry) ==
    IF entry.str = DEBUGGABLE_STRING THEN AttrKinds ELSE AttrKinds \ {"true"}

\* Sequences of at most MaxAttrs attributes <<name index, kind>> with
\* distinct names among the names of the table.
AttrSpecs(table) ==
    LET n == Len(table)
    IN  UNION { { a \in [1..m -> (0..(n - 1)) \X AttrKinds] :
                    /\ \A j, k \in 1..m : j # k => a[j][1] # a[k][1]
                    /\ \A j \in 1..m :
                         a[j][2] \in KindsFor(table[a[j][1] + 1]) } :
                m \in 0..(IF n < MaxAttrs THEN n ELSE MaxAttrs) }

\* The lengths of the resource map: up to the names of the table, or one
\* entry for every string of the pool.
ResLens(table) == (0..Len(table)) \cup {Len(table) + Len(TailStrings)}

\* The idIndex of <application>: 0 (no id attribute) or the 1-based place
\* of one of its attributes.  To keep the inputs few, a place is drawn for
\* the inputs without styles and without a remnant.
IdIndexes(spec, styleCount, remnantLen) ==
    IF styleCount = 0 /\ remnantLen = 0 THEN 0..Len(spec) ELSE {0}

MakeManifest(table, resLen, hasResmap, spec, utf8, styleCount, remnantLen, idIndex) ==
    LET strings == [k \in 1..Len(table) |-> table[k].str] \o TailStrings
        ns == IndexOf(strings, ANDROID_NS_STRING)
        value == IndexOf(strings, StrValue)
        chunks ==
            <<MakePool(strings, utf8, styleCount)>>
            \o (IF hasResmap
                THEN <<MakeResmap([k \in 1..resLen |->
                                     IF k <= Len(table) THEN table[k].id
                                     ELSE 0])>>
                ELSE <<>>)
            \o <<MakeNamespace(TYPE_START_NS, IndexOf(strings, StrAndroid),
                               ns),
                 MakeStartElement(
                     xFFFFFFFF, IndexOf(strings, StrManifest),
                     <<MakeAttr(xFFFFFFFF, IndexOf(strings, StrPackage),
                                "string", value)>>),
                 [MakeStartElement(
                      xFFFFFFFF, IndexOf(strings, APPLICATION_STRING),
                      [j \in 1..Len(spec) |->
                         MakeAttr(ns, spec[j][1], spec[j][2], value)])
                    EXCEPT !.idIndex = idIndex],
                 MakeCData(value, value),
                 MakeEndElement(xFFFFFFFF,
                                IndexOf(strings, APPLICATION_STRING)),
                 MakeNamespace(TYPE_END_NS, IndexOf(strings, StrAndroid),
                               ns)>>
        bytes == [k \in 1..Len(chunks) |-> chunks[k].chunkSize]
    IN  [header |-> [type |-> 3, headerSize |-> COMMON_HEADER_LEN,
                     chunkSize |-> COMMON_HEADER_LEN + Sum(bytes)
                                       + remnantLen],
         chunks |-> chunks,
         bytes |-> bytes,
         remnant |-> [k \in 1..remnantLen |-> 170]]

\* ------------------------------------------------------------------------
\* patchManifest (lines 463-526)
\* ------------------------------------------------------------------------

VARIABLES
    fIn,      \* the input stream of the current run
    fOut,     \* the output stream written so far
    pc,       \* "start", "loop", "done" or "error"
    i,        \* the loop variable of lines 511-526
    locals,   \* the locals of patchManifest the loop reads
    path,     \* "", "fast" or "slow"
    err,      \* the exception that ended the run
    run,      \* 1: the first run, 2: the run on the first run's output
    scan      \* readChunks on a byte stream: [bytes, pos, chunk, state]

vars == <<fIn, fOut, pc, i, locals, path, err, run, tailIsNul, scan>>

NoScan == [bytes |-> <<>>, pos |-> 0, chunk |-> <<>>, state |-> "idle"]

EmptyStream ==
    [header |-> NoHeader, chunks |-> <<>>, bytes |-> <<>>, remnant |-> <<>>]

NoLocals ==
    [stringPoolIdx |-> -1, resmapIdx |-> -1, applicationIdx |-> -1,
     resmapInfo |-> [present |-> FALSE, len |-> 0, ids |-> <<>>],
     applicationAttributes |-> <<>>, debuggableAttributeIdx |-> -1,
     debuggableStringId |-> 0, androidNsId |-> 0]

Init ==
    \E table \in NameTables, utf8 \in BOOLEAN, styleCount \in {0, 1},
       remnantLen \in RemnantLens :
      \E resLen \in ResLens(table), spec \in AttrSpecs(table) :
        \E hasResmap \in (IF resLen > 0 THEN {TRUE} ELSE BOOLEAN),
           idIndex \in IdIndexes(spec, styleCount, remnantLen) :
          /\ fIn = MakeManifest(table, resLen, hasResmap, spec, utf8,
                                styleCount, remnantLen, idIndex)
          /\ fOut = EmptyStream
          /\ pc = "start"
          /\ i = 0
          /\ locals = NoLocals
          /\ path = ""
          /\ err = ""
          /\ run = 1
          /\ tailIsNul = FALSE   \* no string of these inputs leads there
          /\ scan = NoScan

\* An exception ends the run.
Raise(e) ==
    /\ pc' = "error"
    /\ err' = e
    /\ UNCHANGED locals

\* Lines 464-484: what patchManifest finds out before it writes.
Analyse ==
    /\ pc = "start"
    /\ \E chunks \in {readChunks(fIn)} :
       \E found \in {findStringpoolAndResmap(chunks)} :
         IF fIn.header.headerSize # COMMON_HEADER_LEN
         THEN Raise("File header not of size 8!")
         ELSE IF found.err # "" THEN Raise(found.err)
         ELSE
         \E pool \in {fIn.chunks[found.stringPoolIdx + 1]},
            resmapInfo \in {ResmapInfo(fIn, chunks, found.resmapIdx)} :
         \E applicationIdx \in {findApplication(fIn, chunks, pool)} :
           IF applicationIdx = -3 THEN Raise("String not terminated by NULL")
           ELSE IF applicationIdx = -2
           THEN Raise("Multiple application elements!")
           ELSE IF applicationIdx = -1
           THEN Raise("No application element found!")
           ELSE
           \E decoded \in {decodeAttributes(chunks[applicationIdx + 1],
                                            fIn.chunks[applicationIdx + 1])} :
             IF ~decoded.ok THEN Raise("Cannot decode attribute length != 20!")
             ELSE
             \E debuggableAttributeIdx \in
                  {findDebuggableAttribute(pool, resmapInfo, decoded.attrs)} :
               IF debuggableAttributeIdx = -2
               THEN Raise("String not terminated by NULL")
               ELSE /\ locals' =
                         [NoLocals EXCEPT
                            !.stringPoolIdx = found.stringPoolIdx,
                            !.resmapIdx = found.resmapIdx,
                            !.applicationIdx = applicationIdx,
                            !.resmapInfo = resmapInfo,
                            !.applicationAttributes = decoded.attrs,
                            !.debuggableAttributeIdx = debuggableAttributeIdx]
                    /\ pc' = "analysed"
                    /\ err' = ""
    /\ UNCHANGED <<fIn, fOut, i, path, run, tailIsNul, scan>>

\* A variant that copies the input and replaces nothing.
FastCopyAsIs(f, chunks, debuggableValueAbsoluteOffset) == f

\* Lines 489-493: the input up to the offset, the four bytes of the value
\* and the rest of the input.  The word at the offset is replaced.
FastCopy(f, chunks, debuggableValueAbsoluteOffset) ==
    LET patch(k) ==
            LET c == f.chunks[k]
            IN  IF k <= Len(chunks) /\ c.type = CHUNK_TYPE_START_ELEMENT
                THEN [c EXCEPT !.attrs =
                        [j \in 1..Len(c.attrs) |->
                           IF AttrOffset(chunks[k], c, j) + 16
                                  = debuggableValueAbsoluteOffset
                           THEN [c.attrs[j] EXCEPT
                                   !.data = DEBUGGABLE_VALUE_TRUE]
                           ELSE c.attrs[j]]]
                ELSE c
    IN  [header |-> f.header,
         chunks |-> [k \in 1..Len(f.chunks) |-> patch(k)],
         bytes |-> f.bytes,
         remnant |-> f.remnant]

\* Lines 485-494: the debuggable attribute exists.
FastPath ==
    /\ pc = "analysed"
    /\ locals.debuggableAttributeIdx >= 0
    /\ \E chunks \in {readChunks(fIn)} :
         fOut' = FastCopy(fIn, chunks,
                     locals.applicationAttributes[
                         locals.debuggableAttributeIdx + 1].startOffset + 16)
    /\ pc' = "done"
    /\ path' = "fast"
    /\ UNCHANGED <<fIn, i, locals, err, run, tailIsNul, scan>>

\* Lines 498-503.
totalSizeIncrement(pool, resmapIdx) ==
    (IF isUtf8(pool) THEN DEBUGGABLE_STRING_LENGTH_UTF8
     ELSE DEBUGGABLE_STRING_LENGTH_UTF16)
        + UINT32_LENGTH + UINT32_LENGTH
        + (IF resmapIdx = -1 THEN COMMON_HEADER_LEN ELSE 0)
        + ATTRIBUTE_LENGTH

\* Lines 496-512: the new file header and the indices the rebuild uses.
SlowPathBegin ==
    /\ pc = "analysed"
    /\ locals.debuggableAttributeIdx < 0
    /\ \E pool \in {fIn.chunks[locals.stringPoolIdx + 1]} :
       \E found \in {findAndroidNsIdx(pool)} :
         /\ fOut' = [EmptyStream EXCEPT !.header =
                [type |-> fIn.header.type,
                 headerSize |-> fIn.header.headerSize,
                 chunkSize |-> fIn.header.chunkSize
                     + totalSizeIncrement(pool, locals.resmapIdx)]]
         /\ IF found < 0
            THEN Raise(IF found = -1 THEN "No android ns found ..."
                       ELSE "String not terminated by NULL")
            ELSE /\ pc' = "loop"
                 /\ err' = ""
                 /\ locals' =
                      [locals EXCEPT
                         !.debuggableStringId = locals.resmapInfo.len,
                         !.androidNsId =
                             IF found >= locals.resmapInfo.len
                             THEN found + 1 ELSE found]
    /\ i' = 0
    /\ path' = "slow"
    /\ UNCHANGED <<fIn, run, tailIsNul, scan>>

\* The number of chunks readChunks returned.
chunkLen == Len(readChunks(fIn))

\* What one pass of the loop writes: the chunk is appended to the output;
\* an exception ends the run.
Emit(result, next) ==
    /\ \E r \in {result} :
       IF r.ok
       THEN /\ fOut' = [fOut EXCEPT !.chunks = Append(@, r.chunk),
                                    !.bytes = Append(@, r.written)]
            /\ i' = next
            /\ UNCHANGED <<pc, err>>
       ELSE /\ pc' = "error"
            /\ err' = r.err
            /\ UNCHANGED <<fOut, i>>
    /\ UNCHANGED <<fIn, locals, path, run, tailIsNul, scan>>

NumResmaps(f) ==
    Cardinality({k \in 1..Len(f.chunks) : f.chunks[k].type = CHUNK_TYPE_RESMAP})

\* Lines 515-517 and 526: a resource map is written and i is decremented,
\* then incremented.
InjectResmapStep ==
    /\ pc = "loop"
    /\ i < chunkLen
    /\ i = locals.stringPoolIdx + 1 /\ locals.resmapIdx < 0
    /\ NumResmaps(fOut) < MaxResmaps
    /\ Emit(injectResmap, (i - 1) + 1)

\* Lines 518-519 and 526.
PatchStringPoolStep ==
    /\ pc = "loop"
    /\ i < chunkLen
    /\ ~(i = locals.stringPoolIdx + 1 /\ locals.resmapIdx < 0)
    /\ i = locals.stringPoolIdx
    /\ Emit(patchStringPool(fIn.chunks[i + 1], locals.debuggableStringId),
            i + 1)

\* Lines 520-521 and 526.
PatchResmapStep ==
    /\ pc = "loop"
    /\ i < chunkLen
    /\ ~(i = locals.stringPoolIdx + 1 /\ locals.resmapIdx < 0)
    /\ i # locals.stringPoolIdx
    /\ i = locals.resmapIdx
    /\ Emit(patchResmap(fIn.chunks[i + 1]), i + 1)

\* Lines 522-523 and 526.
PatchApplicationElementStep ==
    /\ pc = "loop"
    /\ i < chunkLen
    /\ ~(i = locals.stringPoolIdx + 1 /\ locals.resmapIdx < 0)
    /\ i # locals.stringPoolIdx
    /\ i # locals.resmapIdx
    /\ i = locals.applicationIdx
    /\ Emit(patchApplicationElement(fIn.chunks[i + 1], locals.androidNsId,
                                    locals.debuggableStringId,
                                    locals.resmapInfo),
            i + 1)

\* Lines 524-526.
PatchChunkStep ==
    /\ pc = "loop"
    /\ i < chunkLen
    /\ ~(i = locals.stringPoolIdx + 1 /\ locals.resmapIdx < 0)
    /\ i # locals.stringPoolIdx
    /\ i # locals.resmapIdx
    /\ i # locals.applicationIdx
    /\ Emit(patchChunk(fIn.chunks[i + 1], locals.debuggableStringId), i + 1)

\* Line 513: the loop ends and patchManifest returns.
LoopEnd ==
    /\ pc = "loop"
    /\ i >= chunkLen
    /\ pc' = "done"
    /\ UNCHANGED <<fIn, fOut, i, locals, path, err, run, tailIsNul, scan>>

\* Every chunk of the stream occupies the bytes its chunkSize says.
Scannable(f) == \A k \in 1..Len(f.chunks) : f.chunks[k].chunkSize = f.bytes[k]

\* Lines 528-534: the output is a file, and the patcher is run on it again.
Rerun ==
    /\ pc = "done"
    /\ run = 1
    /\ Scannable(fOut)
    /\ fIn' = fOut
    /\ fOut' = EmptyStream
    /\ pc' = "start"
    /\ i' = 0
    /\ locals' = NoLocals
    /\ path' = ""
    /\ err' = ""
    /\ run' = 2
    /\ tailIsNul' \in BOOLEAN   \* what lies past the pool the run wrote
    /\ UNCHANGED scan

Next ==
    \/ Analyse
    \/ FastPath
    \/ SlowPathBegin
    \/ InjectResmapStep
    \/ PatchStringPoolStep
    \/ PatchResmapStep
    \/ PatchApplicationElementStep
    \/ PatchChunkStep
    \/ LoopEnd
    \/ Rerun

Spec == Init /\ [][Next]_vars

\* ------------------------------------------------------------------------
\* Reading a manifest back: what the properties below are stated with
\* ------------------------------------------------------------------------
\* The string references of an attribute record and of a chunk, in the order
\* they lie in the file.
AttrRefs(a) ==
    <<a.ns, a.name, a.rawVal>>
        \o (IF a.dataType = TYPE_STRING THEN <<a.data>> ELSE <<>>)

ChunkRefs(c) ==
    IF c.type = TYPE_START_NS \/ c.type = TYPE_END_NS
    THEN <<c.comment, c.prefix, c.uri>>
    ELSE IF c.type = CHUNK_TYPE_START_ELEMENT
    THEN <<c.comment, c.ns, c.name>>
             \o Flatten([j \in 1..Len(c.attrs) |-> AttrRefs(c.attrs[j])])
    ELSE IF c.type = TYPE_END_ELEMENT THEN <<c.comment, c.ns, c.name>>
    ELSE IF c.type = TYPE_CDATA THEN <<c.comment, c.data>>
    ELSE <<>>

IsNode(c) == c.type >= TYPE_START_NS /\ c.type <= TYPE_NODE_LAST

\* The input had no resource-map chunk (known once the input is analysed).
NoResmapInput == pc \in {"loop", "done", "error"} /\ ~locals.resmapInfo.present

\* The chunk of the output that stands at the place of input chunk k: the
\* chunks are written in the order of the input.
InPool == fIn.chunks[locals.stringPoolIdx + 1]
OutPool == fOut.chunks[locals.stringPoolIdx + 1]
InApp == fIn.chunks[locals.applicationIdx + 1]
OutApp == fOut.chunks[locals.applicationIdx + 1]
OutResmapInfo ==
    [present |-> TRUE,
     len |-> Len(fOut.chunks[locals.resmapIdx + 1].ids),
     ids |-> fOut.chunks[locals.resmapIdx + 1].ids]

\* ------------------------------------------------------------------------
\* C1: an input with no resource-map chunk and no debuggable attribute is
\* rebuilt with exactly one resource-map chunk, of 12 bytes, right after the
\* string pool, and every input chunk once, in order.
\* Stated as: the rebuild never holds more than one resource-map chunk, it
\* raises nothing, and when it is done the output is the input's chunks with
\* the one 12-byte resource map after the string pool.  (Inputs without
\* styles: the rewrite of a pool with styles is another matter.)
\* ------------------------------------------------------------------------
C1_OneResmapAfterPool ==
    (path = "slow" /\ NoResmapInput /\ InPool.styleCount = 0) =>
        /\ NumResmaps(fOut) <= 1
        /\ pc # "error"
        /\ pc = "done" =>
             /\ Len(fOut.chunks) = Len(fIn.chunks) + 1
             /\ fOut.chunks[locals.stringPoolIdx + 2].type = CHUNK_TYPE_RESMAP
             /\ fOut.chunks[locals.stringPoolIdx + 2].chunkSize = 12
             /\ fOut.bytes[locals.stringPoolIdx + 2] = 12

\* ------------------------------------------------------------------------
\* C2: the second run, on the output of a successful first run, finds the
\* debuggable attribute, takes the fast path and writes its input again.
\* ------------------------------------------------------------------------
C2_SecondRunFastAndEqual ==
    run = 2 =>
        /\ pc # "error"
        /\ path # "slow"
        /\ pc = "analysed" => locals.debuggableAttributeIdx >= 0
        /\ pc = "done" => fOut = fIn

\* ------------------------------------------------------------------------
\* C3: after a successful run the <application> element of the output has
\* an attribute whose name string is "debuggable", whose name has resource
\* id 0x0101000F, whose data is 0xFFFFFFFF and whose dataType is 0x12.
\* Stated for the runs that took the slow path.
\* ------------------------------------------------------------------------
IsDebuggableTrue(pool, resmapInfo, a) ==
    /\ readString(pool, a.name) = DEBUGGABLE_STRING
    /\ readResId(resmapInfo, a.name) = DEBUGGABLE_RES_ID
    /\ a.data = xFFFFFFFF
    /\ a.dataType = 18

C3_SlowOutputHasDebuggable ==
    (pc = "done" /\ path = "slow") =>
        \E j \in 1..Len(OutApp.attrs) :
            IsDebuggableTrue(OutPool, OutResmapInfo, OutApp.attrs[j])

\* ------------------------------------------------------------------------
\* C4: for an input whose file header holds its byte length and whose
\* chunks occupy chunkSize bytes each, every chunk of the output has the
\* chunkSize that was written for it, and the file header of the output
\* holds the length of the output.
\* ------------------------------------------------------------------------
SizesConsistent(f) ==
    /\ Scannable(f)
    /\ f.header.chunkSize = StreamLen(f)

C4_OutputSizesConsistent ==
    (pc = "done" /\ SizesConsistent(fIn)) => SizesConsistent(fOut)

\* ------------------------------------------------------------------------
\* C5: every string reference of the output is 0xFFFFFFFF or less than the
\* stringCount of the output's string pool, for inputs whose references
\* are all 0xFFFFFFFF or less than the input pool's stringCount.
\* ------------------------------------------------------------------------
RefsValid(f, stringCount) ==
    \A k \in 1..Len(f.chunks) :
        \A r \in { ChunkRefs(f.chunks[k])[n] :
                     n \in 1..Len(ChunkRefs(f.chunks[k])) } :
            r = xFFFFFFFF \/ r < stringCount

C5_OutputRefsValid ==
    (pc = "done" /\ RefsValid(fIn, InPool.stringCount)) =>
        RefsValid(fOut, OutPool.stringCount)

\* A rebuilt output with a reference that was moved up to the last string
\* and one that is 0xFFFFFFFF.
C5_Witness ==
    /\ pc = "done" /\ path = "slow"
    /\ \E k \in 1..Len(fOut.chunks) :
         \E n \in 1..Len(ChunkRefs(fOut.chunks[k])) :
            ChunkRefs(fOut.chunks[k])[n] = OutPool.stringCount - 1
    /\ \E k \in 1..Len(fOut.chunks) :
         \E n \in 1..Len(ChunkRefs(fOut.chunks[k])) :
            ChunkRefs(fOut.chunks[k])[n] = xFFFFFFFF

\* ------------------------------------------------------------------------
\* C6: on the slow path, when the attributes of <application> all have a
\* resource id and are in ascending order of it, the new attribute is
\* written right before the first attribute with an id above 0x0101000F,
\* or last; the output attributes are in non-decreasing order of resource
\* id and the existing ones keep their order.
\* ------------------------------------------------------------------------
InResIds == [j \in 1..Len(InApp.attrs) |->
               readResId(locals.resmapInfo, InApp.attrs[j].name)]

InAttrsSorted ==
    /\ \A j \in 1..Len(InApp.attrs) : InResIds[j] # NoneId
    /\ \A j, k \in 1..Len(InApp.attrs) : j < k => InResIds[j] <= InResIds[k]

\* The <application> element has been rebuilt.
AppRebuilt ==
    /\ path = "slow"
    /\ pc \in {"loop", "done"}
    /\ locals.resmapIdx >= 0
    /\ Len(fOut.chunks) > locals.applicationIdx

\* The place of the new attribute: after the attributes with an id up to
\* 0x0101000F.
InsertPlace ==
    Cardinality({j \in 1..Len(InApp.attrs) :
                    InResIds[j] <= DEBUGGABLE_RES_ID}) + 1

RemoveAt(s, p) == SubSeq(s, 1, p - 1) \o SubSeq(s, p + 1, Len(s))

C6_SortedInsertion ==
    (AppRebuilt /\ InAttrsSorted) =>
        \E out \in {OutApp.attrs}, ids \in {fOut.chunks[locals.resmapIdx + 1].ids} :
            /\ Len(out) = Len(InApp.attrs) + 1
            /\ out[InsertPlace].name = locals.debuggableStringId
            /\ ids[out[InsertPlace].name + 1] = DEBUGGABLE_RES_ID
            /\ \A j \in 1..(Len(out) - 1) :
                 ids[out[j].name + 1] <= ids[out[j + 1].name + 1]
            /\ \A j \in 1..Len(InApp.attrs) :
                 /\ RemoveAt(out, InsertPlace)[j].name = InApp.attrs[j].name
                 /\ RemoveAt(out, InsertPlace)[j].dataType
                        = InApp.attrs[j].dataType

\* The new attribute went between an attribute below and one above it.
C6_Witness ==
    /\ AppRebuilt /\ InAttrsSorted
    /\ Len(InApp.attrs) = 2
    /\ InResIds[1] < DEBUGGABLE_RES_ID
    /\ InResIds[2] > DEBUGGABLE_RES_ID
    /\ OutApp.attrs[2].name = locals.debuggableStringId

\* ------------------------------------------------------------------------
\* C7: on the slow path an attribute of <application> whose name has no
\* resource id counts as above every id: the rebuild completes without
\* error, the new attribute comes before every such attribute, and they keep
\* their order.
\* Stated for inputs with a resource map and without styles.
\* ------------------------------------------------------------------------
SomeAttrWithoutResId ==
    \E j \in 1..Len(InApp.attrs) : InResIds[j] = NoneId

C7_NoResIdSortsLast ==
    (path = "slow" /\ locals.resmapIdx >= 0 /\ InPool.styleCount = 0
         /\ SomeAttrWithoutResId) =>
        /\ pc # "error"
        /\ pc = "done" =>
             \A j \in 1..Len(OutApp.attrs) :
                 (OutApp.attrs[j].name > locals.debuggableStringId) =>
                     \E k \in 1..(j - 1) :
                         OutApp.attrs[k].name = locals.debuggableStringId

\* ------------------------------------------------------------------------
\* C8: on the fast path the output has the length of the input and is the
\* input but for the data word of the attribute found, which is 0xFFFFFFFF;
\* an input whose debuggable attribute has data 0xFFFFFFFF is written again
\* unchanged.
\* ------------------------------------------------------------------------
C8_FastPathFrame ==
    (pc = "done" /\ path = "fast") =>
        \E k \in {locals.debuggableAttributeIdx + 1},
           a \in {locals.applicationIdx + 1} :
            /\ StreamLen(fOut) = StreamLen(fIn)
            /\ fOut = [fIn EXCEPT !.chunks[a].attrs[k].data = xFFFFFFFF]
            /\ fIn.chunks[a].attrs[k].data = xFFFFFFFF => fOut = fIn

\* A fast-path run that changed the word, on an input with a remnant.
C8_Witness ==
    /\ pc = "done" /\ path = "fast"
    /\ fIn.remnant # <<>>
    /\ InApp.attrs[locals.debuggableAttributeIdx + 1].data # xFFFFFFFF
    /\ OutApp.attrs[locals.debuggableAttributeIdx + 1].data = xFFFFFFFF

\* ------------------------------------------------------------------------
\* C9: an input with a remnant of 1 to 7 bytes after its last chunk is
\* patched and the remnant is discarded, on the fast and on the slow path:
\* the output ends with its last chunk.
\* ------------------------------------------------------------------------
C9_RemnantDiscarded ==
    (pc = "done" /\ fIn.remnant # <<>>) => fOut.remnant = <<>>

\* ------------------------------------------------------------------------
\* C10: on the slow path every string reference r of every XML node chunk
\* is written as r when r = 0xFFFFFFFF or r < D and as r + 1 otherwise, the
\* rest of the chunk is copied, and the reference written reads in the
\* output pool the string the reference read in the input pool.
\* ------------------------------------------------------------------------
ShiftRule(r, D) == IF r = xFFFFFFFF \/ r < D THEN r ELSE r + 1

\* A chunk with its string references blanked: what is left is the rest.
BlankAttr(a) ==
    [a EXCEPT !.ns = 0, !.name = 0, !.rawVal = 0,
              !.data = IF a.dataType = TYPE_STRING THEN 0 ELSE a.data]

Blank(c) ==
    IF c.type = TYPE_START_NS \/ c.type = TYPE_END_NS
    THEN [c EXCEPT !.comment = 0, !.prefix = 0, !.uri = 0]
    ELSE IF c.type = CHUNK_TYPE_START_ELEMENT
    THEN [c EXCEPT !.comment = 0, !.ns = 0, !.name = 0,
                   !.attrs = [j \in 1..Len(c.attrs) |-> BlankAttr(c.attrs[j])]]
    ELSE IF c.type = TYPE_END_ELEMENT
    THEN [c EXCEPT !.comment = 0, !.ns = 0, !.name = 0]
    ELSE IF c.type = TYPE_CDATA THEN [c EXCEPT !.comment = 0, !.data = 0]
    ELSE c

\* The rebuilt <application> element without the attribute that was added.
WithoutNewAttr(c, D) ==
    LET p == CHOOSE j \in 1..Len(c.attrs) : c.attrs[j].name = D
    IN  [c EXCEPT !.attrs = RemoveAt(c.attrs, p),
                  !.attributeCount = c.attributeCount - 1,
                  !.chunkSize = c.chunkSize - ATTRIBUTE_LENGTH]

ShiftedCopy(in, out, inPool, outPool, D) ==
    \E ri \in {ChunkRefs(in)}, ro \in {ChunkRefs(out)} :
        /\ Blank(out) = Blank(in)
        /\ Len(ro) = Len(ri)
        /\ \A n \in 1..Len(ri) :
             /\ ro[n] = ShiftRule(ri[n], D)
             /\ readString(outPool, ro[n]) = readString(inPool, ri[n])

C10_ShiftRule ==
    (pc = "done" /\ path = "slow") =>
        \E inPool \in {InPool}, outPool \in {OutPool},
           D \in {locals.debuggableStringId} :
            \A k \in 1..Len(fIn.chunks) :
                IsNode(fIn.chunks[k]) =>
                    ShiftedCopy(fIn.chunks[k],
                                IF k = locals.applicationIdx + 1
                                THEN WithoutNewAttr(fOut.chunks[k], D)
                                ELSE fOut.chunks[k],
                                inPool, outPool, D)

\* ------------------------------------------------------------------------
\* C11: for an input with a resource map of length D and a string pool of
\* at least D strings (D = stringCount included), the slow path rewrites
\* the pool: it has one string more, index i < D reads the input string i,
\* index D reads "debuggable", index i > D reads the input string i - 1;
\* the resource map written has D + 1 entries, the first D as in the input
\* and entry D equal to 0x0101000F.
\* Stated for UTF-16 pools without styles.
\* ------------------------------------------------------------------------
\* The rebuild is at the string pool or past it, with D within the pool.
PoolRewriteCase ==
    /\ path = "slow"
    /\ locals.resmapIdx >= 0
    /\ InPool.styleCount = 0
    /\ ~isUtf8(InPool)
    /\ locals.resmapInfo.len <= InPool.stringCount

PoolWritten == Len(fOut.chunks) > locals.stringPoolIdx

ResmapWritten == Len(fOut.chunks) > locals.resmapIdx

C11_PoolRewritten ==
    PoolRewriteCase =>
        \E D \in {locals.resmapInfo.len}, inPool \in {InPool} :
            /\ ~(pc = "error" /\ ~PoolWritten)
            /\ PoolWritten =>
                 \E outPool \in {OutPool} :
                    /\ outPool.stringCount = inPool.stringCount + 1
                    /\ \A k \in 0..(outPool.stringCount - 1) :
                         readString(outPool, k) =
                             IF k < D THEN readString(inPool, k)
                             ELSE IF k = D THEN DEBUGGABLE_STRING
                             ELSE readString(inPool, k - 1)
            /\ ResmapWritten =>
                 \E ids \in {fOut.chunks[locals.resmapIdx + 1].ids} :
                    /\ Len(ids) = D + 1
                    /\ SubSeq(ids, 1, D) = locals.resmapInfo.ids
                    /\ ids[D + 1] = DEBUGGABLE_RES_ID

\* ------------------------------------------------------------------------
\* C12: for an input whose string pool has styles, the slow path rewrites
\* the pool: stylesStart grows by 4 and the length of the new string, the
\* style offsets are copied, and every style record is written with its
\* name moved up by one exactly when it is not 0xFFFFFFFF and at least D,
\* firstChar and lastChar as they were.
\* ------------------------------------------------------------------------
StylesRewriteCase ==
    /\ path = "slow"
    /\ InPool.styleCount > 0
    /\ locals.resmapInfo.len < InPool.stringCount

C12_StylesRewritten ==
    StylesRewriteCase =>
        \E D \in {locals.resmapInfo.len}, inPool \in {InPool} :
            /\ ~(pc = "error" /\ ~PoolWritten)
            /\ PoolWritten =>
                 \E outPool \in {OutPool} :
                    /\ outPool.stylesStart =
                           inPool.stylesStart + UINT32_LENGTH
                               + (IF isUtf8(inPool)
                                  THEN DEBUGGABLE_STRING_LENGTH_UTF8
                                  ELSE DEBUGGABLE_STRING_LENGTH_UTF16)
                    /\ outPool.styleOffsets = inPool.styleOffsets
                    /\ Len(outPool.styles) = Len(inPool.styles)
                    /\ \A k \in 1..Len(inPool.styles) :
                         /\ outPool.styles[k].name =
                                ShiftRule(inPool.styles[k].name, D)
                         /\ outPool.styles[k].firstChar =
                                inPool.styles[k].firstChar
                         /\ outPool.styles[k].lastChar =
                                inPool.styles[k].lastChar

\* ------------------------------------------------------------------------
\* C13: on the slow path idIndex, classIndex and styleIndex of
\* <application> are copied, and each of them that is not 0 designates in
\* the output the attribute it designated in the input: the new attribute
\* is not at or before a place one of them refers to.
\* ------------------------------------------------------------------------
AttrIndexes(c) == {c.idIndex, c.classIndex, c.styleIndex} \ {0}

C13_AttrIndexesKeepTheirAttribute ==
    AppRebuilt =>
        \E in \in {InApp}, out \in {OutApp}, D \in {locals.debuggableStringId} :
            /\ out.idIndex = in.idIndex
            /\ out.classIndex = in.classIndex
            /\ out.styleIndex = in.styleIndex
            /\ \A x \in AttrIndexes(in) :
                 /\ out.attrs[x].name = ShiftRule(in.attrs[x].name, D)
                 /\ \A j \in 1..x : out.attrs[j].name # D

\* ------------------------------------------------------------------------
\* readChunks on a byte stream (lines 72-98)
\* ------------------------------------------------------------------------
\* The longest chunk list the scanner is followed to.
MaxScanChunks == 4

\* unpack("<HHI", data): the 8 bytes at 0-based position pos.
unpackHeader(b, pos) ==
    [type |-> b[pos + 1] + 256 * b[pos + 2],
     headerSize |-> b[pos + 3] + 256 * b[pos + 4],
     chunkSize |-> b[pos + 5] + 256 * b[pos + 6] + 65536 * b[pos + 7]
                       + 16777216 * b[pos + 8]]

\* readCommonHeader at position pos: None (NoHeader) when fewer than 8
\* bytes are left, also when pos is past the end.
readCommonHeaderAt(b, pos) ==
    IF Len(b) - pos < COMMON_HEADER_LEN THEN NoHeader
    ELSE unpackHeader(b, pos)

\* pack("<HHI", type, headerSize, size).
packHeader(type, headerSize, size) ==
    <<type % 256, type \div 256, headerSize % 256, headerSize \div 256,
      size % 256, (size \div 256) % 256, 0, 0>>

Zeros(n) == [k \in 1..n |-> 0]

\* The streams scanned: none, one or two chunks, each a header with a
\* chunkSize that is right, too small (below 8, below headerSize) or too
\* large, and a body of zero bytes; then a remnant.
ScanSizes == {0, 4, 7, 8, 12, 16, 40}
ScanHeaderSizes == {8, 16}
ScanBodyLens == {0, 4, 8}
ScanRemnantLens == {0, 3}

ScanChunks ==
    { packHeader(CHUNK_TYPE_STRINGPOOL, hs, size) \o Zeros(n) :
        hs \in ScanHeaderSizes, size \in ScanSizes, n \in ScanBodyLens }

ScanStreams ==
    { body \o Zeros(r) :
        body \in {<<>>} \cup ScanChunks
                    \cup { c1 \o c2 : c1 \in ScanChunks, c2 \in ScanChunks },
        r \in ScanRemnantLens }

ScanInit ==
    /\ \E b \in ScanStreams :
         scan = [bytes |-> b, pos |-> 0, chunk |-> <<>>, state |-> "reading"]
    /\ fIn = EmptyStream
    /\ fOut = EmptyStream
    /\ pc = "scan"
    /\ i = 0
    /\ locals = NoLocals
    /\ path = ""
    /\ err = ""
    /\ run = 1
    /\ tailIsNul = FALSE

\* Lines 91-97: a header was read; the chunk is recorded at currPos and the
\* stream moves by chunkSize - 8 from the end of the header.
ScanChunk ==
    /\ scan.state = "reading"
    /\ Len(scan.chunk) < MaxScanChunks
    /\ \E header \in {readCommonHeaderAt(scan.bytes, scan.pos)} :
         /\ header # NoHeader
         /\ scan' = [scan EXCEPT
                       !.chunk = Append(@, [startOffset |-> scan.pos,
                                            commonHeader |-> header]),
                       !.pos = scan.pos + COMMON_HEADER_LEN
                                   + (header.chunkSize - COMMON_HEADER_LEN)]
    /\ UNCHANGED <<fIn, fOut, pc, i, locals, path, err, run, tailIsNul>>

\* Lines 91 and 98: no header was read; the list is returned.
ScanReturn ==
    /\ scan.state = "reading"
    /\ readCommonHeaderAt(scan.bytes, scan.pos) = NoHeader
    /\ scan' = [scan EXCEPT !.state = "returned"]
    /\ UNCHANGED <<fIn, fOut, pc, i, locals, path, err, run, tailIsNul>>

ScanNext == ScanChunk \/ ScanReturn

ScanSpec == ScanInit /\ [][ScanNext]_vars

\* ------------------------------------------------------------------------
\* C14: readChunks terminates on every byte stream: it moves on by the
\* chunkSize of each header it reads, so it reads no offset twice; and a
\* chunk whose chunkSize is below its headerSize (0..7 included) or that
\* runs past the end of the stream is an error and is not in the list
\* returned.
\* ------------------------------------------------------------------------
WellFormedChunk(c, len) ==
    /\ c.commonHeader.chunkSize >= c.commonHeader.headerSize
    /\ c.commonHeader.chunkSize >= COMMON_HEADER_LEN
    /\ c.startOffset + c.commonHeader.chunkSize <= len

C14_ScannerAdvancesAndRejects ==
    /\ \A j, k \in 1..Len(scan.chunk) :
         j < k => scan.chunk[j].startOffset < scan.chunk[k].startOffset
    /\ scan.state = "returned" =>
         \A k \in 1..Len(scan.chunk) :
             WellFormedChunk(scan.chunk[k], Len(scan.bytes))

====
